---- MODULE Spec2Model ----
(***************************************************************************)
(* Model of generate_nodes.py: the command-line run of main() (argument    *)
(* validation, generate_nodes, write_jsonl / write_json_array, the CSV     *)
(* export) and, for the reproducibility property, two runs of the program  *)
(* under the same arguments and the same seed.                             *)
(*                                                                         *)
(* Units: probabilities and random.random() results are in hundredths      *)
(* (50 is 0.5); BufferHealth values are in hundredths as well, which is    *)
(* what round(x, 2) keeps.  Timestamp texts are "T0", "T1", ... for the    *)
(* well-formed instants 0, 1, ... (whole seconds) and "bad" for a text     *)
(* that strptime rejects.  uuid4 values are drawn from UuidValues: the     *)
(* 122 random bits of a UUID are cut down to a few values, so equal        *)
(* identifiers are far more frequent here than in a real run.              *)
(***************************************************************************)
EXTENDS Integers, Sequences, FiniteSets, TLC

\* ---- bounds of the model ------------------------------------------------
MaxRows == 3
MaxLevel == 3

\* ---- value sets the inputs and the random draws are taken from ----------
RowsValues == 0..MaxRows
RootShareValues == {-50, 0, 50, 100, 150}
BufferMinValues == {100, 200}
BufferMaxValues == {100}
StartTsValues == {"bad", "T0", "T1"}
EndTsValues == {"bad", "T1"}
MaxLevelValues == 0..MaxLevel
NoSeed == "None"
SeedValues == {"seed7"}
FormatValues == {"jsonl", "json"}
CsvOutValues == {"", "out.csv"}
UuidValues == {"u1", "u2"}
RandomVals == {0, 50}
WellFormedTs == {"T0", "T1", "T2"}
\* a path nothing was written to
NoFile == [exists |-> FALSE, chunks |-> <<>>]
NoCsv == [exists |-> FALSE, header |-> <<>>, rows |-> <<>>]

VARIABLES
  args,                   \* the parsed command line (argparse Namespace)
  pc,                     \* position of the run
  i,                      \* loop index of generate_nodes
  nodes,                  \* list built by generate_nodes
  notes_under_max_level,  \* list of the records with level < max_level_tree
  branch,                 \* the branch the last loop iteration took
  out_file,               \* contents of args.out
  csv_file,               \* contents of args.csv_out
  nodesB,                 \* second run under the same arguments: its nodes
  notesB,                 \* second run: its notes_under_max_level
  out_fileB               \* second run: contents of its output file

vars == <<args, pc, i, nodes, notes_under_max_level, branch, out_file,
          csv_file, nodesB, notesB, out_fileB>>

\* ---- pure helpers --------------------------------------------------------

\* datetime.strptime(text, ISO_Z): defined on the well-formed texts only
Strptime(text) ==
  CASE text = "T0" -> 0
    [] text = "T1" -> 1
    [] text = "T2" -> 2

\* t.strftime(ISO_Z) for a whole-second instant
Strftime(t) ==
  CASE t = 0 -> "T0"
    [] t = 1 -> "T1"
    [] t = 2 -> "T2"

\* random_timestamp(start, end) when random.random() returns r/100:
\* start + r * total_seconds, microseconds dropped, formatted
random_timestamp(start, end, r) ==
  Strftime(start + ((r * (end - start)) \div 100))

\* round(random.uniform(buffer_min, buffer_max), 2), in hundredths
buffer_health(bmin, bmax, r) ==
  bmin + (((bmax - bmin) * r) \div 100)

\* line 98: i == 0 or random.random() < root_share
IsRoot(idx, r, root_share) ==
  idx = 0 \/ r < root_share

\* the comparison of line 103 with the ceiling itself (off by one)
ParentBelowCeiling_Inclusive(parent, max_level_tree) ==
  parent.level <= max_level_tree

\* line 103: nodes[parent_index]["level"] <= max_level_tree - 1
ParentBelowCeiling(parent, max_level_tree) ==
  parent.level <= max_level_tree - 1

\* lines 96, 99, 111-118: a record with Source = "CDN", level = 1
RootNode(ts, node_id, health, session_id) ==
  [timestamp |-> ts, NodeId |-> node_id, BufferHealth |-> health,
   SessionId |-> session_id, Source |-> "CDN", level |-> 1]

\* an attachment that stores the new record's own NodeId as its Source
ChildNode_SelfSource(parent, ts, node_id, health, session_id) ==
  [timestamp |-> ts, NodeId |-> node_id, BufferHealth |-> health,
   SessionId |-> session_id, Source |-> node_id,
   level |-> parent.level + 1]

\* an attachment that copies the parent's level without adding one
ChildNode_SameLevel(parent, ts, node_id, health, session_id) ==
  [timestamp |-> ts, NodeId |-> node_id, BufferHealth |-> health,
   SessionId |-> session_id, Source |-> parent.NodeId,
   level |-> parent.level]

\* lines 104-105 and 108-109, 111-118: a record attached to parent
ChildNode(parent, ts, node_id, health, session_id) ==
  [timestamp |-> ts, NodeId |-> node_id, BufferHealth |-> health,
   SessionId |-> session_id, Source |-> parent.NodeId,
   level |-> parent.level + 1]

\* the test of line 122 one level too strict
UnderMaxLevel_OneLess(level, max_level_tree) ==
  level < max_level_tree - 1

\* the test of line 122 letting records at the ceiling in
UnderMaxLevel_Inclusive(level, max_level_tree) ==
  level <= max_level_tree

\* line 122: if level < max_level_tree
UnderMaxLevel(level, max_level_tree) ==
  level < max_level_tree

\* lines 122-123: the conditional append to notes_under_max_level
AppendUnder(under, rec, max_level_tree) ==
  IF UnderMaxLevel(rec.level, max_level_tree) THEN Append(under, rec) ELSE under

\* One iteration of the loop, lines 90-123, for the draws given:
\* r is the value of random.random() on line 98, parent_index the value of
\* random.randint(0, i - 1), k the position random.choice picks.
LoopBody(nds, under, idx, a, node_id, session_id, health, ts, r, parent_index, k) ==
  IF IsRoot(idx, r, a.root_share)
  THEN LET rec == RootNode(ts, node_id, health, session_id)
       IN [raised |-> FALSE, branch |-> "root", nodes |-> Append(nds, rec),
           under |-> AppendUnder(under, rec, a.max_level_tree)]
  ELSE LET parent == nds[parent_index + 1]
       IN IF ParentBelowCeiling(parent, a.max_level_tree)
          THEN LET rec == ChildNode(parent, ts, node_id, health, session_id)
               IN [raised |-> FALSE, branch |-> "direct",
                   nodes |-> Append(nds, rec),
                   under |-> AppendUnder(under, rec, a.max_level_tree)]
          ELSE IF under = <<>>
               THEN \* random.choice([]) raises IndexError
                    [raised |-> TRUE, branch |-> "raise", nodes |-> nds,
                     under |-> under]
               ELSE LET rec == ChildNode(under[k], ts, node_id, health, session_id)
                    IN [raised |-> FALSE, branch |-> "fallback",
                        nodes |-> Append(nds, rec),
                        under |-> AppendUnder(under, rec, a.max_level_tree)]

\* the values random.random() can return on line 98 (not called when i == 0)
RootDraws(idx) == IF idx = 0 THEN {0} ELSE RandomVals

\* the values random.randint(0, i - 1) can return (not called for a root)
ParentDraws(idx, r, a) ==
  IF IsRoot(idx, r, a.root_share) THEN {0} ELSE 0..(idx - 1)

\* the positions random.choice(notes_under_max_level) can pick
ChoiceDraws(nds, under, idx, r, parent_index, a) ==
  IF IsRoot(idx, r, a.root_share) THEN {1}
  ELSE IF ParentBelowCeiling(nds[parent_index + 1], a.max_level_tree) THEN {1}
  ELSE IF under = <<>> THEN {1}
  ELSE 1..Len(under)

\* ---- serialisation -------------------------------------------------------

\* json.dumps(row): the members of the object, in the dict's insertion order
json_dumps(row) ==
  << <<"timestamp", row.timestamp>>, <<"NodeId", row.NodeId>>,
     <<"BufferHealth", row.BufferHealth>>, <<"SessionId", row.SessionId>>,
     <<"Source", row.Source>>, <<"level", row.level>> >>

\* list(obj.keys()) of a parsed object
Keys(obj) == [j \in 1..Len(obj) |-> obj[j][1]]

\* obj[key] of a parsed object
Value(obj, key) == LET j == CHOOSE x \in 1..Len(obj) : obj[x][1] = key IN obj[j][2]

\* write_jsonl: one line per row; a line is [kind |-> "object", text |-> ...]
write_jsonl(rows) ==
  [exists |-> TRUE,
   chunks |-> [j \in 1..Len(rows) |->
                 [kind |-> "object", text |-> json_dumps(rows[j])]]]

\* write_json_array: "[", the rows separated by ",", "]"
RECURSIVE ArrayChunks(_, _)
ArrayChunks(rows, j) ==
  IF j > Len(rows) THEN <<>>
  ELSE (IF j = 1 THEN <<>> ELSE << [kind |-> ",", text |-> <<>>] >>)
       \o << [kind |-> "object", text |-> json_dumps(rows[j])] >>
       \o ArrayChunks(rows, j + 1)

write_json_array(rows) ==
  [exists |-> TRUE,
   chunks |-> << [kind |-> "[", text |-> <<>>] >> \o ArrayChunks(rows, 1)
                \o << [kind |-> "]", text |-> <<>>] >>]

IsObject(chunk) == chunk.kind = "object"

\* json.load of an array file: the objects between the brackets
json_load(file) ==
  LET objs == SelectSeq(file.chunks, IsObject) IN [j \in 1..Len(objs) |-> objs[j].text]

\* DictWriter.writerow: the values of the row in the order of fieldnames
CsvRow(obj, fieldnames) == [j \in 1..Len(fieldnames) |-> Value(obj, fieldnames[j])]

\* stream_jsonl_to_csv, lines 164-180: header from the first object's keys
stream_jsonl_to_csv(file) ==
  LET objs == json_load(file)
      fieldnames == IF objs = <<>> THEN <<>> ELSE Keys(objs[1])
  IN [exists |-> TRUE, header |-> fieldnames,
      rows |-> [j \in 1..Len(objs) |-> CsvRow(objs[j], fieldnames)]]

\* sorted(headers_clue): str ordering puts upper-case letters first
SortedHeadersClue == <<"BufferHealth", "NodeId", "SessionId", "Source", "timestamp">>

\* json_array_to_csv, lines 147-162
json_array_to_csv(file) ==
  LET data == json_load(file)
      present == UNION {{Keys(data[j])[x] : x \in 1..Len(data[j])} : j \in 1..Len(data)}
      InData(key) == key \in present
      fieldnames == SelectSeq(SortedHeadersClue, InData)
  IN IF data = <<>> THEN NoCsv
     ELSE [exists |-> TRUE, header |-> fieldnames,
           rows |-> [j \in 1..Len(data) |-> CsvRow(data[j], fieldnames)]]

\* ---- the run of main() ---------------------------------------------------

ArgsValues ==
  [rows : RowsValues, root_share : RootShareValues,
   buffer_min : BufferMinValues, buffer_max : BufferMaxValues,
   start_ts : StartTsValues, end_ts : EndTsValues,
   max_level_tree : MaxLevelValues, seed : SeedValues \cup {NoSeed}]

Init ==
  /\ args \in ArgsValues
  /\ pc = "main"
  /\ i = 0
  /\ nodes = <<>>
  /\ notes_under_max_level = <<>>
  /\ branch = "none"
  /\ out_file = NoFile
  /\ csv_file = NoCsv
  /\ nodesB = <<>>
  /\ notesB = <<>>
  /\ out_fileB = NoFile

\* lines 205-210: the checks of main() before generate_nodes is called
MainRejects(a) ==
  \/ a.rows <= 0
  \/ ~(0 <= a.root_share /\ a.root_share <= 100)
  \/ a.buffer_min > a.buffer_max

\* lines 75-82: the checks of generate_nodes before the loop
GenerateRejects(a) ==
  \/ a.start_ts \notin WellFormedTs
  \/ a.end_ts \notin WellFormedTs
  \/ Strptime(a.end_ts) <= Strptime(a.start_ts)

\* main(), lines 203-212
Validate ==
  /\ pc = "main"
  /\ pc' = IF MainRejects(args) THEN "SystemExit" ELSE "generate_nodes"
  /\ UNCHANGED <<args, i, nodes, notes_under_max_level, branch, out_file,
                 csv_file, nodesB, notesB, out_fileB>>

\* generate_nodes, lines 72-88
GenerateEnter ==
  /\ pc = "generate_nodes"
  /\ pc' = IF GenerateRejects(args) THEN "SystemExit" ELSE "loop"
  /\ i' = 0
  /\ nodes' = <<>>
  /\ notes_under_max_level' = <<>>
  /\ UNCHANGED <<args, branch, out_file, csv_file, nodesB, notesB, out_fileB>>

\* generate_nodes, one iteration of lines 90-123
LoopStep ==
  /\ pc = "loop"
  /\ i < args.rows
  /\ \E node_id \in UuidValues, session_id \in UuidValues,
        rh \in RandomVals, rt \in RandomVals, r \in RootDraws(i) :
       \E parent_index \in ParentDraws(i, r, args) :
         \E k \in ChoiceDraws(nodes, notes_under_max_level, i, r, parent_index, args) :
           LET health == buffer_health(args.buffer_min, args.buffer_max, rh)
               ts == random_timestamp(Strptime(args.start_ts), Strptime(args.end_ts), rt)
               res == LoopBody(nodes, notes_under_max_level, i, args, node_id,
                               session_id, health, ts, r, parent_index, k)
           IN /\ nodes' = res.nodes
              /\ notes_under_max_level' = res.under
              /\ branch' = res.branch
              /\ pc' = IF res.raised THEN "IndexError" ELSE "loop"
              /\ i' = IF res.raised THEN i ELSE i + 1
  /\ UNCHANGED <<args, out_file, csv_file, nodesB, notesB, out_fileB>>

\* line 125 and main(), lines 224-229: return nodes, write the output file
WriteOutput ==
  /\ pc = "loop"
  /\ i = args.rows
  /\ \E format \in FormatValues :
       out_file' = IF format = "jsonl" THEN write_jsonl(nodes)
                   ELSE write_json_array(nodes)
  /\ pc' = "written"
  /\ UNCHANGED <<args, i, nodes, notes_under_max_level, branch, csv_file,
                 nodesB, notesB, out_fileB>>

\* main(), lines 231-242: the optional CSV export, then return 0
Export ==
  /\ pc = "written"
  /\ \E csv_out \in CsvOutValues :
       csv_file' = IF csv_out = "" THEN NoCsv
                   ELSE IF out_file.chunks[1].kind = "[" THEN json_array_to_csv(out_file)
                   ELSE stream_jsonl_to_csv(out_file)
  /\ pc' = "exit0"
  /\ UNCHANGED <<args, i, nodes, notes_under_max_level, branch, out_file,
                 nodesB, notesB, out_fileB>>

Next == Validate \/ GenerateEnter \/ LoopStep \/ WriteOutput \/ Export

Spec == Init /\ [][Next]_vars

\* ---- two runs of the program under the same arguments and seed ----------
\* random.seed(seed) on line 73 puts the module-level generator in a state
\* that depends on seed only, so the calls of random.random, random.uniform,
\* random.randint and random.choice return the same values in both runs;
\* uuid.uuid4() on line 39 reads the operating system's entropy and is not
\* affected by random.seed, so each run draws its identifiers on its own.

InitSeeded ==
  /\ Init
  /\ args.seed \in SeedValues

\* one iteration of lines 90-123 in each of the two runs
LoopStepBoth ==
  /\ pc = "loop"
  /\ i < args.rows
  /\ \E node_id \in UuidValues, session_id \in UuidValues,
        node_idB \in UuidValues, session_idB \in UuidValues,
        rh \in RandomVals, rt \in RandomVals, r \in RootDraws(i) :
       \E parent_index \in ParentDraws(i, r, args) :
         \E k \in ChoiceDraws(nodes, notes_under_max_level, i, r, parent_index, args) :
           LET health == buffer_health(args.buffer_min, args.buffer_max, rh)
               ts == random_timestamp(Strptime(args.start_ts), Strptime(args.end_ts), rt)
               res == LoopBody(nodes, notes_under_max_level, i, args, node_id,
                               session_id, health, ts, r, parent_index, k)
               resB == LoopBody(nodesB, notesB, i, args, node_idB,
                                session_idB, health, ts, r, parent_index, k)
           IN /\ nodes' = res.nodes
              /\ notes_under_max_level' = res.under
              /\ nodesB' = resB.nodes
              /\ notesB' = resB.under
              /\ branch' = res.branch
              /\ pc' = IF res.raised THEN "IndexError" ELSE "loop"
              /\ i' = IF res.raised THEN i ELSE i + 1
  /\ UNCHANGED <<args, out_file, csv_file, out_fileB>>

\* line 125 and main(), lines 224-229, in each of the two runs
WriteOutputBoth ==
  /\ pc = "loop"
  /\ i = args.rows
  /\ \E format \in FormatValues :
       /\ out_file' = IF format = "jsonl" THEN write_jsonl(nodes)
                      ELSE write_json_array(nodes)
       /\ out_fileB' = IF format = "jsonl" THEN write_jsonl(nodesB)
                       ELSE write_json_array(nodesB)
  /\ pc' = "written"
  /\ UNCHANGED <<args, i, nodes, notes_under_max_level, branch, csv_file,
                 nodesB, notesB>>

NextSeeded == Validate \/ GenerateEnter \/ LoopStepBoth \/ WriteOutputBoth

SpecSeeded == InitSeeded /\ [][NextSeeded]_vars

\* ---- properties ----------------------------------------------------------

\* the arguments that the specification calls a configuration error
ConfigError(a) ==
  MainRejects(a) \/ GenerateRejects(a) \/ a.max_level_tree <= 0

ValidConfig(a) == ~ConfigError(a)

IsPrefix(s, t) == Len(s) <= Len(t) /\ \A x \in 1..Len(s) : s[x] = t[x]

\* C1: every record's Source is "CDN" or the NodeId of a record at a
\* strictly smaller index, in every prefix of the list, and record 0 is a root.
C1_SourceNamesEarlierNode ==
  /\ \A x \in 1..Len(nodes) :
       \/ nodes[x].Source = "CDN"
       \/ \E y \in 1..(x - 1) : nodes[y].NodeId = nodes[x].Source
  /\ (Len(nodes) >= 1 => nodes[1].Source = "CDN")

\* a chain of three records: the third attached to the second, the second
\* to the first, under distinct identifiers
C1_Witness ==
  /\ Len(nodes) = 3
  /\ nodes[2].Source = nodes[1].NodeId
  /\ nodes[3].Source = nodes[2].NodeId
  /\ nodes[1].NodeId # nodes[2].NodeId

\* C2: every record has level >= 1; level is 1 when Source is "CDN", and
\* otherwise 1 plus the level of an earlier record whose NodeId is Source.
C2_LevelIsParentLevelPlusOne ==
  \A x \in 1..Len(nodes) :
    /\ nodes[x].level >= 1
    /\ (nodes[x].Source = "CDN" => nodes[x].level = 1)
    /\ (nodes[x].Source # "CDN" =>
          \E y \in 1..(x - 1) : /\ nodes[y].NodeId = nodes[x].Source
                                /\ nodes[x].level = nodes[y].level + 1)

\* both attaching branches have acted: the second record attached directly,
\* the third through the fallback list
C2_Witness ==
  /\ Len(nodes) = 3
  /\ branch = "fallback"
  /\ nodes[2].level = 2
  /\ nodes[3].level = 2
  /\ nodes[1].NodeId # nodes[2].NodeId

\* C3: with max_level_tree >= 1 no record has a level above max_level_tree;
\* with max_level_tree = 2 every level-2 record's Source names a level-1 record.
C3_LevelWithinCeiling ==
  args.max_level_tree >= 1 =>
    \A x \in 1..Len(nodes) :
      /\ nodes[x].level <= args.max_level_tree
      /\ (args.max_level_tree = 2 /\ nodes[x].level = 2 =>
            \E y \in 1..(x - 1) : /\ nodes[y].NodeId = nodes[x].Source
                                  /\ nodes[y].level = 1)

\* a finished run under max_level_tree = 2 in which a candidate at the
\* ceiling was replaced through the fallback list
C3_Witness ==
  /\ args.max_level_tree = 2
  /\ pc = "exit0"
  /\ branch = "fallback"
  /\ \E x \in 1..Len(nodes) : nodes[x].level = 2

\* C4: under a valid configuration generation ends without an error and the
\* list returned, and the file written, hold exactly args.rows records.
C4_ExactlyRowsRecords ==
  ValidConfig(args) =>
    /\ pc # "IndexError"
    /\ (pc \in {"written", "exit0"} =>
          /\ Len(nodes) = args.rows
          /\ Len(json_load(out_file)) = args.rows)

\* C5: two runs under the same arguments and the same seed write the same
\* output, field by field.
C5_SameSeedSameOutput ==
  pc = "written" => (nodes = nodesB /\ out_file = out_fileB)

\* C6: the CSV exported from a line-delimited file has one row per record
\* and exactly the columns timestamp, NodeId, BufferHealth, SessionId, Source.
C6_JsonlCsvColumns ==
  (pc = "exit0" /\ csv_file.exists /\ out_file.chunks[1].kind # "[") =>
    /\ Len(csv_file.rows) = args.rows
    /\ {csv_file.header[x] : x \in 1..Len(csv_file.header)}
         = {"timestamp", "NodeId", "BufferHealth", "SessionId", "Source"}

\* C7: under a configuration error no record is constructed, no output
\* file is written and the run does not end successfully.
C7_ConfigErrorStopsEarly ==
  ConfigError(args) =>
    /\ nodes = <<>>
    /\ ~out_file.exists
    /\ pc \notin {"written", "exit0"}

\* C8: with max_level_tree >= 2 the fallback list is non-empty whenever an
\* iteration after the first starts, random.choice never raises, and the
\* parent taken from the list has a level below max_level_tree.
C8_FallbackListNonEmpty ==
  args.max_level_tree >= 2 =>
    /\ pc # "IndexError"
    /\ branch # "raise"
    /\ (pc = "loop" /\ i >= 1 => notes_under_max_level # <<>>)
    /\ (branch = "fallback" =>
          \E y \in 1..(Len(nodes) - 1) :
            /\ nodes[y].NodeId = nodes[Len(nodes)].Source
            /\ nodes[y].level < args.max_level_tree)

\* the fallback branch has just acted under a ceiling of at least 2 and the
\* loop goes on
C8_Witness ==
  /\ args.max_level_tree >= 2
  /\ branch = "fallback"
  /\ pc = "loop"
  /\ notes_under_max_level # <<>>

\* C9: notes_under_max_level is the list of the records built so far whose
\* level is below max_level_tree, in construction order, and a step only
\* ever appends to it.
C9_FallbackListIsFilteredPrefix ==
  /\ [](LET Below(rec) == rec.level < args.max_level_tree
        IN notes_under_max_level = SelectSeq(nodes, Below))
  /\ [][IsPrefix(notes_under_max_level, notes_under_max_level')]_vars

\* an iteration starts with one record in the list and one record, at the
\* ceiling, left out of it
C9_Witness ==
  /\ pc = "loop"
  /\ i < args.rows
  /\ Len(nodes) = 2
  /\ Len(notes_under_max_level) = 1

\* C10: with max_level_tree = 1 every attachment falls back to a root and
\* generation goes on without raising.
C10_DegenerateCeilingProceeds ==
  args.max_level_tree = 1 =>
    /\ pc # "IndexError"
    /\ \A x \in 1..Len(nodes) :
         nodes[x].Source # "CDN" =>
           \E y \in 1..(x - 1) : /\ nodes[y].NodeId = nodes[x].Source
                                 /\ nodes[y].Source = "CDN"

====
